---- MODULE Spec2Model ----
(***************************************************************************)
(* A model of src/src/HyprloadPlugin.cpp (hyprload's plugin acquisition    *)
(* and build orchestration): manifest parsing, plugin sources (Git and     *)
(* Local), plugin requirements, buildPlugin and install/update.            *)
(*                                                                         *)
(* Strings are sequences of string tokens.  Names, paths and URLs are      *)
(* spelled character by character, because the code inspects their         *)
(* characters (find, find_last_of, substr); messages and command output    *)
(* are sequences of words.                                                 *)
(***************************************************************************)
EXTENDS Integers, Sequences, FiniteSets, TLC

VARIABLES
    manifestInput,   \* the plugin key and toml tables handed to the manifest constructors
    manifestResult,  \* outcome of PluginManifest::PluginManifest on manifestInput
    hyprloadResult,  \* outcome of HyprloadManifest::HyprloadManifest on manifestInput
    srcA, srcB,      \* two constructed PluginSource objects
    eqResult,        \* outcome of operator== on them
    reqInput,        \* what a source or requirement constructor is handed
    reqResult,       \* the object it constructs, or what it throws
    remote,          \* upstream revision of each Git url
    tree,            \* the directory at each source path
    bin,             \* the files of the plugin binaries directory
    headers,         \* whether hyprload::getHyprlandHeadersPath() finds the headers
    last             \* the last call made on a requirement's source, and its outcome

manifestVars == <<manifestInput, manifestResult, hyprloadResult>>
sourceVars == <<srcA, srcB, eqResult>>
reqVars == <<reqInput, reqResult>>
fsVars == <<remote, tree, bin, headers, last>>

vars == <<manifestInput, manifestResult, hyprloadResult, srcA, srcB, eqResult,
          reqInput, reqResult, remote, tree, bin, headers, last>>

-----------------------------------------------------------------------------
(* Strings *)

\* std::string::find(needle) == 0
StartsWith(s, p) == Len(s) >= Len(p) /\ SubSeq(s, 1, Len(p)) = p

\* std::string::find(needle) != npos
Contains(s, needle) ==
    \E i \in 1..(Len(s) - Len(needle) + 1) : SubSeq(s, i, i + Len(needle) - 1) = needle

\* s.substr(s.find_last_of(c) + 1); find_last_of gives npos = -1 (mod 2^64) when absent
AfterLast(s, c) ==
    LET hits == {i \in 1..Len(s) : s[i] = c}
        pos == IF hits = {} THEN 0 ELSE CHOOSE i \in hits : \A j \in hits : j <= i
    IN  SubSeq(s, pos + 1, Len(s))

DotSo == <<".", "s", "o">>

-----------------------------------------------------------------------------
(* toml++ nodes.  A table is a function from its possible keys to nodes,   *)
(* with Absent for a key the table does not contain.                       *)

Absent == [ty |-> "absent"]
TStr(s) == [ty |-> "string", str |-> s]
TInt(n) == [ty |-> "integer", int |-> n]
TArr(es) == [ty |-> "array", elems |-> es]
TTab(t) == [ty |-> "table", tab |-> t]

TContains(t, k) == t[k] # Absent
IsString(v) == v.ty = "string"
IsArray(v) == v.ty = "array"
IsTable(v) == v.ty = "table"

\* node.as_string()->get(): as_string() is nullptr for a node that is not a
\* string, and the dereference is then undefined: the process crashes or an
\* unspecified string is read.
GarbageString == <<"<unspecified>">>
UBOutcomes == {"crash", "garbage"}
AsStringGet(v, ub) ==
    IF IsString(v) THEN [st |-> "ok", str |-> v.str]
    ELSE IF ub = "crash" THEN [st |-> "crash", str |-> <<>>]
    ELSE [st |-> "ok", str |-> GarbageString]

-----------------------------------------------------------------------------
(* PluginManifest *)

Thrown(what) == [status |-> "throw", what |-> what]
Crashed == [status |-> "crash", what |-> <<>>]

DefaultVersion == <<"0.0.0">>
DefaultDescription == <<"No description provided">>

\* lines 110-123
ManifestAuthors(manifest, ub) ==
    IF TContains(manifest, "authors") /\ IsArray(manifest["authors"])
    THEN LET es == manifest["authors"].elems
         IN  IF \E i \in 1..Len(es) : ~IsString(es[i])
             THEN [st |-> "throw", val |-> <<>>]
             ELSE [st |-> "ok", val |-> [i \in 1..Len(es) |-> es[i].str]]
    ELSE IF TContains(manifest, "author")
         THEN LET a == AsStringGet(manifest["author"], ub)
              IN  [st |-> a.st, val |-> IF a.st = "ok" THEN <<a.str>> ELSE <<>>]
         ELSE [st |-> "ok", val |-> <<>>]

\* lines 125-135
ManifestOptionalString(manifest, key, default, ub) ==
    IF TContains(manifest, key) THEN AsStringGet(manifest[key], ub)
    ELSE [st |-> "ok", str |-> default]

\* a faulty variant: without a declared output the path is left empty
ManifestOutputDeclaredOnly(name, build) ==
    IF TContains(build, "output") /\ IsString(build["output"])
    THEN build["output"].str
    ELSE <<>>

\* lines 140-144
ManifestOutput(name, build) ==
    IF TContains(build, "output") /\ IsString(build["output"])
    THEN build["output"].str
    ELSE name \o DotSo

\* lines 146-155
ManifestSteps(build) ==
    IF TContains(build, "steps") /\ IsArray(build["steps"])
    THEN LET es == build["steps"].elems
         IN  IF \E i \in 1..Len(es) : ~IsString(es[i])
             THEN [st |-> "throw", what |-> <<"Build step must be a string">>, val |-> <<>>]
             ELSE [st |-> "ok", what |-> <<>>, val |-> [i \in 1..Len(es) |-> es[i].str]]
    ELSE [st |-> "throw", what |-> <<"Plugin must have build steps">>, val |-> <<>>]

\* PluginManifest::PluginManifest(name, manifest), lines 107-159
PluginManifest(name, manifest, ub) ==
    LET authors == ManifestAuthors(manifest, ub)
        version == ManifestOptionalString(manifest, "version", DefaultVersion, ub)
        description == ManifestOptionalString(manifest, "description", DefaultDescription, ub)
    IN  IF authors.st = "throw" THEN Thrown(<<"Author must be a string">>)
        ELSE IF authors.st = "crash" THEN Crashed
        ELSE IF version.st = "crash" THEN Crashed
        ELSE IF description.st = "crash" THEN Crashed
        ELSE IF ~(TContains(manifest, "build") /\ IsTable(manifest["build"]))
        THEN Thrown(<<"Plugin must have a build table">>)
        ELSE LET build == manifest["build"].tab
                 steps == ManifestSteps(build)
             IN  IF steps.st = "throw" THEN Thrown(steps.what)
                 ELSE [status |-> "ok",
                       manifest |-> [m_sName |-> name,
                                     m_sAuthors |-> authors.val,
                                     m_sVersion |-> version.str,
                                     m_sDescription |-> description.str,
                                     m_pBinaryOutputPath |-> ManifestOutput(name, build),
                                     m_sBuildSteps |-> steps.val]]

\* HyprloadManifest::HyprloadManifest(manifest), lines 185-193.  The file is
\* the sequence of its top-level <<key, node>> entries in toml++'s key
\* order; the first constructor that throws or crashes ends the walk.
RECURSIVE HyprloadManifestFrom(_, _, _, _)
HyprloadManifestFrom(file, i, plugins, ub) ==
    IF i > Len(file) THEN [status |-> "ok", m_vPlugins |-> plugins]
    ELSE IF ~IsTable(file[i][2]) THEN HyprloadManifestFrom(file, i + 1, plugins, ub)
    ELSE LET p == PluginManifest(file[i][1], file[i][2].tab, ub)
         IN  IF p.status = "ok"
             THEN HyprloadManifestFrom(file, i + 1, Append(plugins, p.manifest), ub)
             ELSE p

HyprloadManifest(file, ub) == HyprloadManifestFrom(file, 1, <<>>, ub)

-----------------------------------------------------------------------------
(* Paths *)

Slash == <<"/">>

\* std::filesystem::path::operator/ : an absolute right operand replaces the left
PathJoin(a, b) ==
    IF StartsWith(b, Slash) THEN b
    ELSE IF a = <<>> \/ a[Len(a)] = "/" THEN a \o b
    ELSE a \o Slash \o b

\* std::filesystem::path::filename()
Filename(p) == AfterLast(p, "/")

\* hyprload::getPluginsPath() and hyprload::getPluginBinariesPath() (Hyprload.hpp)
PluginsPath == <<"/", "p">>
PluginBinariesPath == PathJoin(PluginsPath, <<"b", "i", "n">>)

-----------------------------------------------------------------------------
(* PluginSource *)

Https == <<"h", "t", "t", "p", "s", ":", "/", "/">>
GitAt == <<"g", "i", "t", "@">>
GithubPrefix == Https \o <<"g", "i", "t", "h", "u", "b", ".", "c", "o", "m", "/">>
DotGit == <<".", "g", "i", "t">>

\* a faulty variant: every url is taken for a GitHub shorthand
GitPluginSourceAlwaysShorthand(url, branch) ==
    [kind |-> "git",
     m_sUrl |-> GithubPrefix \o url \o DotGit,
     m_sBranch |-> branch,
     m_pSourcePath |-> PathJoin(PathJoin(PluginsPath, <<"s", "r", "c">>),
                                AfterLast(GithubPrefix \o url \o DotGit, "/"))]

\* GitPluginSource::GitPluginSource(url, branch), lines 207-219
GitPluginSource(url, branch) ==
    LET m_sUrl == IF StartsWith(url, Https) THEN url
                  ELSE IF StartsWith(url, GitAt) THEN url
                  ELSE GithubPrefix \o url \o DotGit
    IN  [kind |-> "git",
         m_sUrl |-> m_sUrl,
         m_sBranch |-> branch,
         m_pSourcePath |-> PathJoin(PathJoin(PluginsPath, <<"s", "r", "c">>), AfterLast(m_sUrl, "/"))]

\* LocalPluginSource::LocalPluginSource(path), line 305
LocalPluginSource(path) == [kind |-> "local", m_pSourcePath |-> path]

\* GitPluginSource::isEquivalent, lines 299-303, and
\* LocalPluginSource::isEquivalent, lines 364-368 (virtual dispatch on this)
IsEquivalent(this, other) ==
    IF this.kind = "git"
    THEN /\ this.m_sUrl = other.m_sUrl
         /\ this.m_sBranch = other.m_sBranch
         /\ this.m_pSourcePath = other.m_pSourcePath
    ELSE this.m_pSourcePath = other.m_pSourcePath

\* a faulty variant: the typeid test is dropped and only the field both variants have is compared
SourceEqualsPathOnly(this, other) == this.m_pSourcePath = other.m_pSourcePath

\* PluginSource::operator==, lines 199-205
SourceEquals(this, other) ==
    IF this.kind # other.kind THEN FALSE ELSE IsEquivalent(this, other)

-----------------------------------------------------------------------------
(* PluginRequirement *)

DefaultBranch == <<"m", "a", "i", "n">>

\* a faulty variant: local is looked at before git
PluginRequirementLocalFirst(plugin) ==
    LET isGit == TContains(plugin, "git") /\ IsString(plugin["git"])
        isLocal == TContains(plugin, "local") /\ IsString(plugin["local"])
        source == IF isLocal THEN plugin["local"].str ELSE plugin["git"].str
        branch == IF TContains(plugin, "branch") /\ IsString(plugin["branch"])
                  THEN plugin["branch"].str ELSE DefaultBranch
        m_sName == IF TContains(plugin, "name") /\ IsString(plugin["name"])
                   THEN plugin["name"].str ELSE AfterLast(source, "/")
    IN  IF ~isGit /\ ~isLocal THEN Thrown(<<"Plugin must have a source">>)
        ELSE [status |-> "ok",
              req |-> [m_sName |-> m_sName,
                       m_pSource |-> IF isLocal THEN LocalPluginSource(source)
                                     ELSE GitPluginSource(source, branch),
                       m_pBinaryPath |-> PathJoin(PathJoin(PluginsPath, <<"b", "i", "n">>),
                                                  m_sName \o DotSo)]]

\* PluginRequirement::PluginRequirement(plugin), lines 370-397
PluginRequirement(plugin) ==
    LET isGit == TContains(plugin, "git") /\ IsString(plugin["git"])
        isLocal == TContains(plugin, "local") /\ IsString(plugin["local"])
        source == IF isGit THEN plugin["git"].str ELSE plugin["local"].str
        branch == IF TContains(plugin, "branch") /\ IsString(plugin["branch"])
                  THEN plugin["branch"].str ELSE DefaultBranch
        m_sName == IF TContains(plugin, "name") /\ IsString(plugin["name"])
                   THEN plugin["name"].str ELSE AfterLast(source, "/")
    IN  IF ~isGit /\ ~isLocal THEN Thrown(<<"Plugin must have a source">>)
        ELSE [status |-> "ok",
              req |-> [m_sName |-> m_sName,
                       m_pSource |-> IF isGit THEN GitPluginSource(source, branch)
                                     ELSE LocalPluginSource(source),
                       m_pBinaryPath |-> PathJoin(PathJoin(PluginsPath, <<"b", "i", "n">>),
                                                  m_sName \o DotSo)]]

-----------------------------------------------------------------------------
(* The requirement list of the run, and the world it is installed from.    *)

Bar == <<"b", "a", "r">>
Foo == <<"f", "o", "o">>

ReqEntry(git, local) == [git |-> git, local |-> local, branch |-> Absent, name |-> Absent]

\* Two Git repositories whose urls end alike, and one local directory.
ReqEntries ==
    << ReqEntry(TStr(GitAt \o <<"h", ":", "a", "/">> \o Bar), Absent),
       ReqEntry(TStr(GitAt \o <<"h", ":", "b", "/">> \o Bar), Absent),
       ReqEntry(Absent, TStr(<<"/", "l", "/">> \o Foo)) >>

Requirements == [i \in 1..Len(ReqEntries) |-> PluginRequirement(ReqEntries[i]).req]
ReqIds == 1..Len(ReqEntries)
GitReqs == {r \in ReqIds : Requirements[r].m_pSource.kind = "git"}
LocalReqs == ReqIds \ GitReqs

SourcePaths == {Requirements[r].m_pSource.m_pSourcePath : r \in ReqIds}
Urls == {Requirements[r].m_pSource.m_sUrl : r \in GitReqs}
LocalPaths == {Requirements[r].m_pSource.m_pSourcePath : r \in LocalReqs}

\* What a revision of a repository (or an edit of a local directory) holds:
\* its hyprload.toml, and what its build steps do when run.
BuildTable(output) ==
    TTab([output |-> output, steps |-> TArr(<<TStr(<<"make">>)>>)])
PluginTable(version, build) ==
    TTab([authors |-> Absent, author |-> Absent, version |-> version,
          description |-> Absent, build |-> build])
Desc(manifest, file, code, output, makes) ==
    [manifest |-> manifest, file |-> file, code |-> code, output |-> output, makes |-> makes]

LibOutput(n) == <<"o", "/", "l">> \o n \o DotSo
DescDefault(n) ==
    Desc("file", << <<n, PluginTable(Absent, BuildTable(Absent))>> >>, 0, <<"built">>, n \o DotSo)
DescLib(n) ==
    Desc("file", << <<n, PluginTable(Absent, BuildTable(TStr(LibOutput(n))))>> >>,
         0, <<"built">>, LibOutput(n))
DescFail(n) ==
    Desc("file", << <<n, PluginTable(Absent, BuildTable(Absent))>> >>,
         2, <<"make:", "***", "Error", "1">>, <<>>)
DescNoArtifact(n) ==
    Desc("file", << <<n, PluginTable(Absent, BuildTable(Absent))>> >>, 0, <<"nothing", "to", "do">>, <<>>)
DescNoEntry(n) ==
    Desc("file", << <<<<"x">> \o n, PluginTable(Absent, BuildTable(Absent))>> >>, 0, <<"built">>, n \o DotSo)
DescNoBuildTable(n) ==
    Desc("file", << <<n, PluginTable(Absent, Absent)>> >>, 0, <<"built">>, n \o DotSo)
DescBadVersion(n) ==
    Desc("file", << <<n, PluginTable(TInt(1), BuildTable(Absent))>> >>, 0, <<"built">>, n \o DotSo)
DescMissing == Desc("missing", <<>>, 0, <<>>, <<>>)
DescSyntax == Desc("malformed", <<>>, 0, <<>>, <<>>)

UrlA == Requirements[1].m_pSource.m_sUrl
UrlB == Requirements[2].m_pSource.m_sUrl

HistoryA == <<DescLib(Bar), DescFail(Bar), DescDefault(Bar), DescSyntax>>
HistoryB == <<DescDefault(Bar), DescNoArtifact(Bar), DescMissing, DescNoEntry(Bar)>>
HistoryLocal == <<DescDefault(Foo), DescNoBuildTable(Foo), DescLib(Foo), DescBadVersion(Foo)>>

RepoHistory(origin) ==
    IF origin = UrlA THEN HistoryA ELSE IF origin = UrlB THEN HistoryB ELSE HistoryLocal

RepoAt(origin, rev) ==
    LET h == RepoHistory(origin) IN h[(rev % Len(h)) + 1]

\* every relative path a build can write or a manifest can declare
OutPaths == {Bar \o DotSo, LibOutput(Bar), Foo \o DotSo, LibOutput(Foo)}
BinPaths == {PathJoin(PluginBinariesPath, Filename(o)) : o \in OutPaths}
                \cup {Requirements[r].m_pBinaryPath : r \in ReqIds}

\* how many upstream commits and local edits the world makes in all
MaxRev == 2

-----------------------------------------------------------------------------
(* The filesystem *)

NoFile == [from |-> <<>>, rev |-> -1]
\* the artifact a build of revision rev of origin writes
Artifact(origin, rev) == [from |-> origin, rev |-> rev]

NoDir == [exists |-> FALSE, dotgit |-> FALSE, origin |-> <<>>, rev |-> 0,
          files |-> [o \in OutPaths |-> NoFile]]

\* the content of the file at an absolute path (NoFile when there is none)
ReadFile(t, b, p) ==
    IF p \in DOMAIN b THEN b[p]
    ELSE LET at == {<<sp, o>> \in SourcePaths \X OutPaths : PathJoin(sp, o) = p /\ t[sp].exists}
         IN  IF at = {} THEN NoFile
             ELSE LET w == CHOOSE x \in at : TRUE IN t[w[1]].files[w[2]]

\* std::filesystem::exists
Exists(t, b, p) == ReadFile(t, b, p) # NoFile

Ok == [status |-> "ok", what |-> <<>>]
Err(what) == [status |-> "err", what |-> what]
NoCmd == [ran |-> FALSE, exit |-> 0, output |-> <<>>]

\* pclose() gives the wait status of the shell: the exit code in the high byte
WaitStatus(code) == code * 256

\* executeCommand, lines 17-34; run is what the command does once started
ExecuteCommand(popenOk, run) ==
    IF ~popenOk THEN [ran |-> TRUE, exit |-> -1, output |-> <<"Failed to execute command">>]
    ELSE [ran |-> TRUE, exit |-> WaitStatus(run.code), output |-> run.output]

-----------------------------------------------------------------------------
(* Manifest lookup and buildPlugin *)

\* getHyprlandManifest, lines 36-49.  The HyprloadManifest constructor runs
\* outside the try block, so what it throws leaves the function.
GetHyprlandManifest(t, sourcePath, ub) ==
    LET dir == t[sourcePath]
        desc == RepoAt(dir.origin, dir.rev)
    IN  IF ~dir.exists \/ desc.manifest = "missing"
        THEN Err(<<"Source does not have a hyprload.toml manifest">>)
        ELSE IF desc.manifest = "malformed"
        THEN Err(<<"Failed to parse source manifest: ", "syntax error">>)
        ELSE HyprloadManifest(desc.file, ub)

\* the linear search of getPluginManifest, lines 59-72
FindPlugin(h, name) ==
    IF h.status # "ok" THEN [status |-> h.status, what |-> h.what]
    ELSE IF \A i \in 1..Len(h.m_vPlugins) : h.m_vPlugins[i].m_sName # name
    THEN Err(<<"Plugin does not have a manifest for ">> \o name)
    ELSE [status |-> "ok", what |-> <<>>,
          manifest |-> h.m_vPlugins[CHOOSE i \in 1..Len(h.m_vPlugins) :
                                       /\ h.m_vPlugins[i].m_sName = name
                                       /\ \A j \in 1..(i - 1) : h.m_vPlugins[j].m_sName # name]]

\* getPluginManifest, lines 51-73
GetPluginManifest(t, sourcePath, name, ub) ==
    FindPlugin(GetHyprlandManifest(t, sourcePath, ub), name)

\* What the shell does with "export ... && cd <sourcePath> && <steps> && cd -":
\* the steps are the revision's build; "cd -" prints the directory it returns to.
BuildRun(desc, buildSteps) ==
    IF buildSteps = <<>> THEN [code |-> 0, output |-> <<"$OLDPWD">>, makes |-> <<>>]
    ELSE IF desc.code = 0 THEN [code |-> 0, output |-> desc.output \o <<"$OLDPWD">>, makes |-> desc.makes]
    ELSE [code |-> desc.code, output |-> desc.output, makes |-> <<>>]

NoBuild == [status |-> "none", what |-> <<>>]
BuildPrefix == <<"Failed to build plugin: ">>

\* a faulty variant: the error of a failed build leaves the captured output out
BuildErrorWithoutOutput(output) == Err(BuildPrefix)

\* line 101
BuildError(output) == Err(BuildPrefix \o output)

\* buildPlugin from the manifest check on, lines 80-104
BuildWithManifest(pm, run, t, sourcePath, in) ==
    IF pm.status # "ok"
    THEN [res |-> [status |-> pm.status, what |-> pm.what], cmd |-> NoCmd,
          steps |-> <<"headers", "manifest">>, tree |-> t]
    ELSE IF ~headers
    THEN [res |-> Err(<<"Could not find hyprland headers. Refer to https://github.com/Duckonaut/hyprload#Setup">>),
          cmd |-> NoCmd, steps |-> <<"headers", "manifest">>, tree |-> t]
    ELSE [res |-> IF ExecuteCommand(in.popen, run).exit # 0
                  THEN BuildError(ExecuteCommand(in.popen, run).output) ELSE Ok,
          cmd |-> ExecuteCommand(in.popen, run),
          steps |-> <<"headers", "manifest", "exec">>,
          tree |-> IF in.popen /\ run.makes # <<>>
                   THEN [t EXCEPT ![sourcePath].files[run.makes] =
                            Artifact(t[sourcePath].origin, t[sourcePath].rev)]
                   ELSE t]

\* the build of the revision checked out at sourcePath
RunOf(pm, t, sourcePath) ==
    IF pm.status # "ok" THEN BuildRun(DescMissing, <<>>)
    ELSE BuildRun(RepoAt(t[sourcePath].origin, t[sourcePath].rev), pm.manifest.m_sBuildSteps)

\* buildPlugin, lines 75-105.  in.popen: whether popen() starts the shell.
BuildWithPlugin(pm, t, sourcePath, in) ==
    BuildWithManifest(pm, RunOf(pm, t, sourcePath), t, sourcePath, in)

BuildPlugin(t, sourcePath, name, in) ==
    BuildWithPlugin(GetPluginManifest(t, sourcePath, name, in.ub), t, sourcePath, in)

-----------------------------------------------------------------------------
(* install, update, installSource, isUpToDate *)

Outcome(res, build, cmd, steps, t, b) ==
    [res |-> res, build |-> build, cmd |-> cmd, steps |-> steps, tree |-> t, bin |-> b]

Faults == {"none", "remove", "copy"}

\* a faulty variant: a stale copy is removed instead of being replaced
PublishToRemoveOrCopy(bp, steps, fresh, targetPath, stale, b, in) ==
    IF fresh = NoFile
    THEN Outcome(Err(<<"Plugin binary does not exist">>), bp.res, bp.cmd, steps, bp.tree, b)
    ELSE IF stale
    THEN Outcome(Ok, bp.res, bp.cmd, steps \o <<"remove">>, bp.tree, [b EXCEPT ![targetPath] = NoFile])
    ELSE Outcome(Ok, bp.res, bp.cmd, steps \o <<"copy">>, bp.tree, [b EXCEPT ![targetPath] = fresh])

\* The publish phase of install, lines 278-292 and 343-357: outputBinary and
\* its content fresh, targetPath and whether a stale file is there.  in.fault:
\* the std::filesystem call that fails with an exception, if any; a failed
\* copy leaves no target file.
PublishTo(bp, steps, fresh, targetPath, stale, b, in) ==
    IF fresh = NoFile
    THEN Outcome(Err(<<"Plugin binary does not exist">>), bp.res, bp.cmd, steps, bp.tree, b)
    ELSE IF stale /\ in.fault = "remove"
    THEN Outcome(Thrown(<<"filesystem error: ", "remove">>), bp.res, bp.cmd,
                 steps \o <<"remove">>, bp.tree, b)
    ELSE IF in.fault = "copy"
    THEN Outcome(Thrown(<<"filesystem error: ", "copy">>), bp.res, bp.cmd,
                 steps \o (IF stale THEN <<"remove", "copy">> ELSE <<"copy">>), bp.tree,
                 [b EXCEPT ![targetPath] = NoFile])
    ELSE Outcome(Ok, bp.res, bp.cmd,
                 steps \o (IF stale THEN <<"remove", "copy">> ELSE <<"copy">>), bp.tree,
                 [b EXCEPT ![targetPath] = fresh])

\* lines 278-284 and 343-349
PublishOutput(bp, outputBinary, b, name, in) ==
    PublishTo(bp, bp.steps \o <<"manifest", "exists">>, ReadFile(bp.tree, b, outputBinary),
              PathJoin(PluginBinariesPath, Filename(outputBinary)),
              Exists(bp.tree, b, PathJoin(PluginBinariesPath, Filename(outputBinary))), b, in)

\* a faulty variant: the result of the build is not looked at
PublishBuiltUnchecked(bp, pm, b, sourcePath, name, in) ==
    IF pm.status # "ok"
    THEN Outcome([status |-> pm.status, what |-> pm.what], bp.res, bp.cmd,
                 bp.steps \o <<"manifest">>, bp.tree, b)
    ELSE PublishOutput(bp, PathJoin(sourcePath, pm.manifest.m_pBinaryOutputPath), b, name, in)

\* lines 266-276 and 331-341
PublishBuilt(bp, pm, b, sourcePath, name, in) ==
    IF bp.res.status # "ok" THEN Outcome(bp.res, bp.res, bp.cmd, bp.steps, bp.tree, b)
    ELSE IF pm.status # "ok"
    THEN Outcome([status |-> pm.status, what |-> pm.what], bp.res, bp.cmd,
                 bp.steps \o <<"manifest">>, bp.tree, b)
    ELSE PublishOutput(bp, PathJoin(sourcePath, pm.manifest.m_pBinaryOutputPath), b, name, in)

InstallBuilt(bp, b, sourcePath, name, in) ==
    PublishBuilt(bp, GetPluginManifest(bp.tree, sourcePath, name, in.ub), b, sourcePath, name, in)

\* The build and publish phase shared by GitPluginSource::install, lines
\* 264-292, and LocalPluginSource::install, lines 329-357.
InstallPublish(t, b, sourcePath, name, in) ==
    InstallBuilt(BuildPlugin(t, sourcePath, name, in), b, sourcePath, name, in)

\* GitPluginSource::isSourceAvailable, lines 231-233, and
\* LocalPluginSource::isSourceAvailable, lines 311-313
IsSourceAvailable(t, src) ==
    IF src.kind = "git" THEN t[src.m_pSourcePath].exists /\ t[src.m_pSourcePath].dotgit
    ELSE t[src.m_pSourcePath].exists

\* a faulty variant: installSource creates a missing local directory
InstallSourceMakesLocalDir(t, b, src, in) ==
    IF src.kind = "local"
    THEN Outcome(Ok, NoBuild, NoCmd, <<>>,
                 [t EXCEPT ![src.m_pSourcePath] =
                     [NoDir EXCEPT !.exists = TRUE, !.origin = src.m_pSourcePath]], b)
    ELSE IF in.net /\ ~t[src.m_pSourcePath].exists
    THEN Outcome(Ok, NoBuild, NoCmd, <<"clone">>,
                 [t EXCEPT ![src.m_pSourcePath] =
                     [exists |-> TRUE, dotgit |-> TRUE, origin |-> src.m_sUrl,
                      rev |-> remote[src.m_sUrl], files |-> [o \in OutPaths |-> NoFile]]], b)
    ELSE Outcome(Err(<<"Failed to clone plugin source">>), NoBuild, NoCmd, <<"clone">>, t, b)

\* GitPluginSource::installSource, lines 221-229, and
\* LocalPluginSource::installSource, lines 307-309.  in.net: whether the
\* remote answers; git refuses to clone into an existing non-empty directory.
InstallSource(t, b, src, in) ==
    IF src.kind = "local" THEN Outcome(Ok, NoBuild, NoCmd, <<>>, t, b)
    ELSE IF in.net /\ ~t[src.m_pSourcePath].exists
    THEN Outcome(Ok, NoBuild, NoCmd, <<"clone">>,
                 [t EXCEPT ![src.m_pSourcePath] =
                     [exists |-> TRUE, dotgit |-> TRUE, origin |-> src.m_sUrl,
                      rev |-> remote[src.m_sUrl], files |-> [o \in OutPaths |-> NoFile]]], b)
    ELSE Outcome(Err(<<"Failed to clone plugin source">>), NoBuild, NoCmd, <<"clone">>, t, b)

\* a faulty variant: a fresh clone is built and published in the same call
InstallClonesThenBuilds(t, b, src, name, in) ==
    IF src.kind = "git"
    THEN IF ~IsSourceAvailable(t, src)
         THEN IF InstallSource(t, b, src, in).res.status # "ok" THEN InstallSource(t, b, src, in)
              ELSE [InstallPublish(InstallSource(t, b, src, in).tree, b, src.m_pSourcePath, name, in)
                       EXCEPT !.steps = <<"clone">> \o @]
         ELSE InstallPublish(t, b, src.m_pSourcePath, name, in)
    ELSE IF ~IsSourceAvailable(t, src)
         THEN Outcome(Err(<<"Source for ">> \o name \o <<" does not exist">>), NoBuild, NoCmd, <<>>, t, b)
         ELSE InstallPublish(t, b, src.m_pSourcePath, name, in)

\* GitPluginSource::install, lines 259-293, and
\* LocalPluginSource::install, lines 324-358
Install(t, b, src, name, in) ==
    IF src.kind = "git"
    THEN IF ~IsSourceAvailable(t, src) THEN InstallSource(t, b, src, in)
         ELSE InstallPublish(t, b, src.m_pSourcePath, name, in)
    ELSE IF ~IsSourceAvailable(t, src)
         THEN Outcome(Err(<<"Source for ">> \o name \o <<" does not exist">>), NoBuild, NoCmd, <<>>, t, b)
         ELSE InstallPublish(t, b, src.m_pSourcePath, name, in)

\* "git -C <sourcePath> pull": moves a work tree to its origin's revision
\* and keeps the untracked build products; fails without a repository there.
GitPull(t, sourcePath, net) ==
    IF net /\ t[sourcePath].exists /\ t[sourcePath].dotgit
    THEN [ok |-> TRUE, tree |-> [t EXCEPT ![sourcePath].rev = remote[t[sourcePath].origin]]]
    ELSE [ok |-> FALSE, tree |-> t]

\* a faulty variant: a failed pull is ignored and install runs anyway
UpdateIgnoresPull(t, b, src, name, in) ==
    IF src.kind = "local" THEN Install(t, b, src, name, in)
    ELSE [Install(GitPull(t, src.m_pSourcePath, in.net).tree, b, src, name, in)
             EXCEPT !.steps = <<"pull">> \o @]

\* GitPluginSource::update, lines 249-257, and
\* LocalPluginSource::update, lines 320-322
Update(t, b, src, name, in) ==
    IF src.kind = "local" THEN Install(t, b, src, name, in)
    ELSE IF ~GitPull(t, src.m_pSourcePath, in.net).ok
    THEN Outcome(Err(<<"Failed to update plugin source">>), NoBuild, NoCmd, <<"pull">>, t, b)
    ELSE [Install(GitPull(t, src.m_pSourcePath, in.net).tree, b, src, name, in)
             EXCEPT !.steps = <<"pull">> \o @]

\* what "git status -uno" prints about the branch after a fetch
StatusUpToDate == <<"Your", "branch", "is", "up", "to", "date", "with", "'origin/main'.">>
StatusBehind == <<"Your", "branch", "is", "behind", "'origin/main'", "by", "1", "commit,",
                  "and", "can", "be", "fast-forwarded.">>
StatusAhead == <<"Your", "branch", "is", "ahead", "of", "'origin/main'", "by", "1", "commit.">>

\* "git -C <sourcePath> status -uno".  in.statusFails: git exits with 128 and
\* writes to stderr only; in.ahead: the work tree holds a commit of its own.
GitStatus(t, sourcePath, in) ==
    IF in.statusFails THEN [code |-> 128, output |-> <<>>]
    ELSE IF t[sourcePath].rev # remote[t[sourcePath].origin] THEN [code |-> 0, output |-> StatusBehind]
    ELSE IF in.ahead THEN [code |-> 0, output |-> StatusAhead]
    ELSE [code |-> 0, output |-> StatusUpToDate]

\* line 246
UpToDateVerdict(exit, output) == exit # 0 /\ ~Contains(output, <<"ahead">>)

\* GitPluginSource::isUpToDate, lines 235-247, and
\* LocalPluginSource::isUpToDate, lines 315-318
IsUpToDate(t, src, in) ==
    IF src.kind = "local" THEN [ret |-> FALSE, fetchOk |-> FALSE, cmd |-> NoCmd]
    ELSE LET fetchOk == in.net /\ t[src.m_pSourcePath].exists /\ t[src.m_pSourcePath].dotgit
             cmd == ExecuteCommand(in.popen, GitStatus(t, src.m_pSourcePath, in))
         IN  IF ~fetchOk THEN [ret |-> FALSE, fetchOk |-> FALSE, cmd |-> NoCmd]
             ELSE [ret |-> UpToDateVerdict(cmd.exit, cmd.output), fetchOk |-> TRUE, cmd |-> cmd]

-----------------------------------------------------------------------------
(* The calls a host makes on the sources of its requirements, one at a     *)
(* time (the core is single-threaded and blocking), and the world around.  *)

\* last.after: for an install, what the call just before it did when that
\* was a successful install of the same requirement ("clone" or "publish")
NoCall == [op |-> "none", req |-> 0, res |-> Ok, ret |-> FALSE, steps |-> <<>>,
           build |-> NoBuild, cmd |-> NoCmd, fetchOk |-> FALSE, after |-> "none"]
After(op, r) ==
    IF op = "install" /\ last.op = "install" /\ last.req = r /\ last.res.status = "ok"
    THEN IF last.steps = <<"clone">> THEN "clone" ELSE "publish"
    ELSE "none"

Returned(op, r, out) ==
    [op |-> op, req |-> r, res |-> out.res, ret |-> FALSE, steps |-> out.steps,
     build |-> out.build, cmd |-> out.cmd, fetchOk |-> FALSE, after |-> After(op, r)]

\* What the environment decides during one call: whether the remote answers
\* (net), whether popen() starts a shell, which filesystem call fails, and
\* what a null dereference does.  A later decision is only listed with the
\* earlier ones that let the call reach it.
Inputs ==
    {in \in [net : BOOLEAN, popen : BOOLEAN, fault : Faults, ub : UBOutcomes] :
        /\ ~in.net => in.popen /\ in.fault = "none" /\ in.ub = "crash"
        /\ ~in.popen => in.fault = "none"}

CallInstall(r) ==
    \E out \in {Install(tree, bin, Requirements[r].m_pSource, Requirements[r].m_sName, in) :
                    in \in Inputs} :
            /\ tree' = out.tree
            /\ bin' = out.bin
            /\ last' = Returned("install", r, out)
            /\ UNCHANGED <<remote, headers, manifestVars, sourceVars, reqVars>>

CallUpdate(r) ==
    \E out \in {Update(tree, bin, Requirements[r].m_pSource, Requirements[r].m_sName, in) :
                    in \in Inputs} :
            /\ tree' = out.tree
            /\ bin' = out.bin
            /\ last' = Returned("update", r, out)
            /\ UNCHANGED <<remote, headers, manifestVars, sourceVars, reqVars>>

CallInstallSource(r) ==
    \E out \in {InstallSource(tree, bin, Requirements[r].m_pSource, in) :
                    in \in {i \in Inputs : i.popen /\ i.fault = "none" /\ i.ub = "crash"}} :
            /\ tree' = out.tree
            /\ bin' = out.bin
            /\ last' = Returned("installSource", r, out)
            /\ UNCHANGED <<remote, headers, manifestVars, sourceVars, reqVars>>

\* What the environment decides during isUpToDate.
StatusInputs ==
    {in \in [net : BOOLEAN, popen : BOOLEAN, statusFails : BOOLEAN, ahead : BOOLEAN] :
        /\ ~in.net => in.popen /\ ~in.statusFails /\ ~in.ahead
        /\ ~in.popen => ~in.statusFails /\ ~in.ahead
        /\ in.statusFails => ~in.ahead}

CallIsUpToDate(r) ==
    \E out \in {IsUpToDate(tree, Requirements[r].m_pSource, in) : in \in StatusInputs} :
            /\ last' = [NoCall EXCEPT !.op = "isUpToDate", !.req = r, !.ret = out.ret,
                                      !.cmd = out.cmd, !.fetchOk = out.fetchOk,
                                      !.steps = IF out.cmd.ran THEN <<"fetch", "status">>
                                                ELSE IF Requirements[r].m_pSource.kind = "git"
                                                     THEN <<"fetch">> ELSE <<>>]
            /\ UNCHANGED <<remote, tree, bin, headers, manifestVars, sourceVars, reqVars>>

RECURSIVE SumOver(_, _)
SumOver(f, S) ==
    IF S = {} THEN 0
    ELSE f[CHOOSE y \in S : TRUE] + SumOver(f, S \ {CHOOSE y \in S : TRUE})
Sum(f) == SumOver(f, DOMAIN f)

\* commits upstream and edits of local directories so far
Revs == Sum(remote) + Sum([p \in LocalPaths |-> tree[p].rev])

\* somebody pushes a commit to a repository
UpstreamCommit(u) ==
    /\ Revs < MaxRev
    /\ remote' = [remote EXCEPT ![u] = @ + 1]
    /\ last' = NoCall
    /\ UNCHANGED <<tree, bin, headers, manifestVars, sourceVars, reqVars>>

\* the user creates a local plugin directory
LocalDirCreated(p) ==
    /\ ~tree[p].exists
    /\ tree' = [tree EXCEPT ![p] = [NoDir EXCEPT !.exists = TRUE, !.origin = p]]
    /\ last' = NoCall
    /\ UNCHANGED <<remote, bin, headers, manifestVars, sourceVars, reqVars>>

\* the user edits a local plugin directory
LocalDirEdited(p) ==
    /\ tree[p].exists
    /\ Revs < MaxRev
    /\ tree' = [tree EXCEPT ![p].rev = @ + 1]
    /\ last' = NoCall
    /\ UNCHANGED <<remote, bin, headers, manifestVars, sourceVars, reqVars>>

NotRun == [status |-> "not run"]
ManifestIdle ==
    /\ manifestInput = NotRun
    /\ manifestResult = NotRun
    /\ hyprloadResult = NotRun
SourceIdle ==
    /\ srcA = NotRun
    /\ srcB = NotRun
    /\ eqResult = NotRun
ReqIdle ==
    /\ reqInput = NotRun
    /\ reqResult = NotRun
FsIdle ==
    /\ remote = NotRun
    /\ tree = NotRun
    /\ bin = NotRun
    /\ headers = TRUE
    /\ last = NotRun

Init ==
    /\ remote = [u \in Urls |-> 0]
    /\ tree = [p \in SourcePaths |-> NoDir]
    /\ bin = [p \in BinPaths |-> NoFile]
    /\ headers \in BOOLEAN
    /\ last = NoCall
    /\ ManifestIdle
    /\ SourceIdle
    /\ ReqIdle

Next ==
    \/ \E r \in ReqIds : CallInstall(r)
    \/ \E r \in ReqIds : CallUpdate(r)
    \/ \E r \in ReqIds : CallInstallSource(r)
    \/ \E r \in ReqIds : CallIsUpToDate(r)
    \/ \E u \in Urls : UpstreamCommit(u)
    \/ \E p \in LocalPaths : LocalDirCreated(p)
    \/ \E p \in LocalPaths : LocalDirEdited(p)

Spec == Init /\ [][Next]_vars

-----------------------------------------------------------------------------
(* Manifest construction on its own: every plugin table over the fields    *)
(* the constructor reads, each absent, well typed or wrongly typed.        *)

\* longest array of authors or build steps tried
MaxArrayLen == 2

ArraysOf(elems) == UNION {[1..n -> elems] : n \in 0..MaxArrayLen}

AuthorsNodes ==
    {Absent, TStr(<<"ann">>)} \cup {TArr(a) : a \in ArraysOf({TStr(<<"ann">>), TInt(1)})}
AuthorNodes == {Absent, TStr(<<"bob">>), TInt(1)}
VersionNodes == {Absent, TStr(<<"1.2.3">>), TInt(1)}
DescriptionNodes == {Absent, TStr(<<"a plugin">>), TInt(1)}
OutputNodes == {Absent, TStr(LibOutput(Bar)), TInt(1)}
StepsNodes ==
    {Absent, TStr(<<"make">>)} \cup {TArr(a) : a \in ArraysOf({TStr(<<"make">>), TInt(1)})}
BuildNodes ==
    {Absent, TInt(1)} \cup {TTab(b) : b \in [output : OutputNodes, steps : StepsNodes]}

PluginTables ==
    [authors : AuthorsNodes, author : AuthorNodes, version : VersionNodes,
     description : DescriptionNodes, build : BuildNodes]

Widget == <<"w", "i", "d", "g", "e", "t">>
PluginKeys == {Bar, Widget}

GoodPluginTable == PluginTable(Absent, BuildTable(Absent))

\* hyprload.toml files that hold the table under key name: alone, after
\* another plugin, and among entries that are not tables
HyprloadShapes == {"alone", "second", "mixed"}
HyprloadFile(input) ==
    LET entry == <<input.name, TTab(input.table)>>
    IN  IF input.shape = "alone" THEN <<entry>>
        ELSE IF input.shape = "second" THEN << <<<<"a">>, GoodPluginTable>>, entry >>
        ELSE << <<<<"a">>, TStr(<<"text">>)>>, entry, <<<<"z">>, GoodPluginTable>> >>

InitManifest ==
    /\ manifestInput \in [name : PluginKeys, table : PluginTables, shape : HyprloadShapes]
    /\ manifestResult = NotRun
    /\ hyprloadResult = NotRun
    /\ SourceIdle
    /\ ReqIdle
    /\ FsIdle

ConstructPluginManifest ==
    /\ manifestResult = NotRun
    /\ \E ub \in UBOutcomes :
          manifestResult' = PluginManifest(manifestInput.name, manifestInput.table, ub)
    /\ UNCHANGED <<manifestInput, hyprloadResult, sourceVars, reqVars, fsVars>>

ConstructHyprloadManifest ==
    /\ manifestResult # NotRun
    /\ hyprloadResult = NotRun
    /\ \E ub \in UBOutcomes :
          hyprloadResult' = HyprloadManifest(HyprloadFile(manifestInput), ub)
    /\ UNCHANGED <<manifestInput, manifestResult, sourceVars, reqVars, fsVars>>

NextManifest == ConstructPluginManifest \/ ConstructHyprloadManifest

SpecManifest == InitManifest /\ [][NextManifest]_vars

-----------------------------------------------------------------------------
(* Source construction and comparison on their own.                        *)

Dev == <<"d", "e", "v">>
GitInputs ==
    {<<"a", "/">> \o Bar, <<"b", "/">> \o Bar, Https \o <<"h", "/">> \o Bar,
     GitAt \o <<"h", ":">> \o Bar \o DotGit}
Branches == {DefaultBranch, Dev}
LocalInputs ==
    {<<"/", "l", "/">> \o Foo, <<"/", "l", "/">> \o Bar,
     \* the directory a Git source for a/bar or b/bar derives
     GitPluginSource(<<"a", "/">> \o Bar, DefaultBranch).m_pSourcePath}

InitSource ==
    /\ srcA = NotRun
    /\ srcB = NotRun
    /\ eqResult = NotRun
    /\ ManifestIdle
    /\ ReqIdle
    /\ FsIdle

ConstructGit ==
    /\ \E url \in GitInputs, branch \in Branches :
          \/ srcA' = GitPluginSource(url, branch) /\ srcB' = srcB
          \/ srcB' = GitPluginSource(url, branch) /\ srcA' = srcA
    /\ eqResult' = NotRun
    /\ UNCHANGED <<manifestVars, reqVars, fsVars>>

ConstructLocal ==
    /\ \E path \in LocalInputs :
          \/ srcA' = LocalPluginSource(path) /\ srcB' = srcB
          \/ srcB' = LocalPluginSource(path) /\ srcA' = srcA
    /\ eqResult' = NotRun
    /\ UNCHANGED <<manifestVars, reqVars, fsVars>>

Compare ==
    /\ srcA # NotRun
    /\ srcB # NotRun
    /\ eqResult' = [status |-> "done",
                    ab |-> SourceEquals(srcA, srcB),
                    ba |-> SourceEquals(srcB, srcA),
                    aa |-> SourceEquals(srcA, srcA)]
    /\ UNCHANGED <<srcA, srcB, manifestVars, reqVars, fsVars>>

NextSource == ConstructGit \/ ConstructLocal \/ Compare

SpecSource == InitSource /\ [][NextSource]_vars

-----------------------------------------------------------------------------
(* Source and requirement construction on their own: every url handed to   *)
(* GitPluginSource, and every requirement entry over the fields            *)
(* PluginRequirement reads, each absent, well typed or wrongly typed.      *)

Http == <<"h", "t", "t", "p", ":", "/", "/">>
CtorUrls == GitInputs \cup {Http \o <<"h", "/">> \o Bar, Bar, Https \o <<"h", "/">> \o Bar \o Slash}

FooBar == Foo \o Slash \o Bar
ReqGitNodes ==
    {Absent, TInt(1), TStr(FooBar), TStr(Https \o <<"h", "/">> \o Bar),
     TStr(GitAt \o <<"h", ":">> \o Bar \o DotGit)}
ReqLocalNodes == {Absent, TInt(1), TStr(<<"/", "l", "/">> \o Foo)}
ReqBranchNodes == {Absent, TInt(1), TStr(Dev)}
ReqNameNodes == {Absent, TInt(1), TStr(<<"x">>), TStr(<<"/", "x">>)}
RequirementEntries ==
    [git : ReqGitNodes, local : ReqLocalNodes, branch : ReqBranchNodes, name : ReqNameNodes]

InitRequirement ==
    /\ reqInput = NotRun
    /\ reqResult = NotRun
    /\ ManifestIdle
    /\ SourceIdle
    /\ FsIdle

ConstructGitPluginSource ==
    /\ \E url \in CtorUrls, branch \in Branches :
          /\ reqInput' = [kind |-> "url", url |-> url, branch |-> branch]
          /\ reqResult' = [status |-> "ok", source |-> GitPluginSource(url, branch)]
    /\ UNCHANGED <<manifestVars, sourceVars, fsVars>>

ConstructPluginRequirement ==
    /\ \E entry \in RequirementEntries :
          /\ reqInput' = [kind |-> "entry", entry |-> entry]
          /\ reqResult' = PluginRequirement(entry)
    /\ UNCHANGED <<manifestVars, sourceVars, fsVars>>

NextRequirement == ConstructGitPluginSource \/ ConstructPluginRequirement

SpecRequirement == InitRequirement /\ [][NextRequirement]_vars

-----------------------------------------------------------------------------
(* Claims *)

Src(r) == Requirements[r].m_pSource
LastStep(c) == IF c.steps = <<>> THEN "none" ELSE c.steps[Len(c.steps)]
Did(c, step) == \E i \in 1..Len(c.steps) : c.steps[i] = step
IsInstallOrUpdate(c) == c.op \in {"install", "update"}

\* C1: install on a Git source whose tree is absent only clones: it runs no
\* build, leaves the binaries directory alone and succeeds iff the clone
\* did; the install right after a successful clone starts with the build and,
\* when it succeeds, has run build, manifest lookup, artifact check and copy.
C1_InstallTwoPhase ==
    [][ /\ (last'.op = "install" /\ last'.req \in GitReqs
                /\ ~IsSourceAvailable(tree, Src(last'.req)))
            => /\ last'.steps = <<"clone">>
               /\ last'.build = NoBuild
               /\ ~last'.cmd.ran
               /\ bin' = bin
               /\ last'.res.status \in {"ok", "err"}
               /\ last'.res.status = "ok" <=> IsSourceAvailable(tree', Src(last'.req))
        /\ (last'.op = "install" /\ last'.req \in GitReqs /\ last'.after = "clone")
            => /\ ~Did(last', "clone")
               /\ SubSeq(last'.steps, 1, 2) = <<"headers", "manifest">>
               /\ last'.res.status = "ok"
                    => /\ SubSeq(last'.steps, 1, 5)
                              = <<"headers", "manifest", "exec", "manifest", "exists">>
                       /\ LastStep(last') = "copy"
                       /\ \E p \in BinPaths : bin'[p] # NoFile
      ]_vars

\* C1 witness: an install that cloned, then an install that published
C1_Witness ==
    /\ last.op = "install"
    /\ last.req \in GitReqs
    /\ last.after = "clone"
    /\ last.res.status = "ok"
    /\ LastStep(last) = "copy"

\* C2 (as claimed): after an install or update whose publish phase succeeded,
\* an artifact is present at the requirement's binary path
\* <plugins-dir>/bin/<name>.so.
C2_PublishedAtBinaryPath ==
    (IsInstallOrUpdate(last) /\ last.res.status = "ok" /\ LastStep(last) = "copy")
        => bin[Requirements[last.req].m_pBinaryPath] # NoFile

\* C3 (as claimed): Git isUpToDate returns true exactly when the fetch
\* succeeded, the status query succeeded and its output has no ahead/behind
\* marker.
C3_UpToDateVerdict ==
    (last.op = "isUpToDate" /\ last.req \in GitReqs)
        => (last.ret <=> /\ last.fetchOk
                         /\ last.cmd.ran
                         /\ last.cmd.exit = 0
                         /\ ~Contains(last.cmd.output, <<"ahead">>)
                         /\ ~Contains(last.cmd.output, <<"behind">>))

\* C4 (as claimed): an install or update that fails leaves every artifact
\* that was published before the call in place.
C4_FailureKeepsPublished ==
    [][ (IsInstallOrUpdate(last') /\ last'.res.status # "ok")
            => \A p \in BinPaths : bin[p] # NoFile => bin'[p] # NoFile
      ]_vars

\* C5: an install of a Git source right after an install of it that
\* published, with the build command behaving as it did and no filesystem
\* fault, succeeds, clones nothing and leaves the binaries directory as the
\* first install left it.
C5_InstallIdempotent ==
    [][ (/\ last'.op = "install"
         /\ last'.req \in GitReqs
         /\ last'.after = "publish"
         /\ last'.cmd.ran => last'.cmd = last.cmd
         /\ last'.res.status # "throw")
            => /\ last'.res.status = "ok"
               /\ ~Did(last, "clone")
               /\ ~Did(last', "clone")
               /\ LastStep(last') = "copy"
               /\ bin' = bin
      ]_vars

\* C5 witness: a second successful install in a row of a Git source
C5_Witness ==
    /\ last.op = "install"
    /\ last.req \in GitReqs
    /\ last.after = "publish"
    /\ last.res.status = "ok"
    /\ bin[PathJoin(PluginBinariesPath, Filename(LibOutput(Bar)))] # NoFile

PullFailure == Err(<<"Failed to update plugin source">>)

\* C6: Git update runs the pull first; without a source tree the pull fails;
\* a failed pull gives a source error and nothing else happens (no clone, no
\* build, trees and binaries untouched); otherwise the result and effects
\* are those of install on the pulled tree.
C6_UpdatePullsFirst ==
    [][ (last'.op = "update" /\ last'.req \in GitReqs)
            => /\ last'.steps # <<>> /\ last'.steps[1] = "pull"
               /\ ~Did(last', "clone")
               /\ ~IsSourceAvailable(tree, Src(last'.req)) => last'.res = PullFailure
               /\ last'.res = PullFailure
                    => /\ last'.steps = <<"pull">>
                       /\ last'.build = NoBuild
                       /\ ~last'.cmd.ran
                       /\ tree' = tree
                       /\ bin' = bin
               /\ last'.res # PullFailure
                    => \E in \in Inputs :
                          /\ last'.res = Install(GitPull(tree, Src(last'.req).m_pSourcePath, TRUE).tree,
                                                 bin, Src(last'.req),
                                                 Requirements[last'.req].m_sName, in).res
                          /\ bin' = Install(GitPull(tree, Src(last'.req).m_pSourcePath, TRUE).tree,
                                            bin, Src(last'.req),
                                            Requirements[last'.req].m_sName, in).bin
                          /\ tree' = Install(GitPull(tree, Src(last'.req).m_pSourcePath, TRUE).tree,
                                             bin, Src(last'.req),
                                             Requirements[last'.req].m_sName, in).tree
      ]_vars

\* C6 witness: an update whose pull succeeded and whose install published
C6_Witness ==
    /\ last.op = "update"
    /\ last.req \in GitReqs
    /\ last.res.status = "ok"
    /\ last.steps[1] = "pull"
    /\ LastStep(last) = "copy"

\* C7 (as claimed): a successfully constructed PluginManifest has build steps.
C7_BuildStepsNonEmpty ==
    manifestResult.status = "ok" => manifestResult.manifest.m_sBuildSteps # <<>>

\* the plugin tables C8 names
HasNonString(v) == IsArray(v) /\ \E i \in 1..Len(v.elems) : ~IsString(v.elems[i])
MustNotParse(table) ==
    \/ ~IsTable(table.build)
    \/ ~IsArray(table.build.tab.steps)
    \/ HasNonString(table.build.tab.steps)
    \/ HasNonString(table.authors)

\* C8 (as claimed): for a plugin table whose build is missing or no table,
\* whose build.steps is missing, no array or holds a non-string, or whose
\* authors array holds a non-string, the PluginManifest constructor fails
\* with a parse error, and so does the HyprloadManifest constructor on a
\* file that holds the table.
C8_MalformedTablesRejected ==
    MustNotParse(manifestInput.table)
        => /\ manifestResult # NotRun => manifestResult.status = "throw"
           /\ hyprloadResult # NotRun => hyprloadResult.status = "throw"

\* C9: in an install or update, buildPlugin succeeds iff the build command
\* ran and exited with 0; when it exits with another status, buildPlugin
\* gives an error that holds the captured output, the call returns that
\* error and goes no further (no artifact check, no removal, no copy).
C9_BuildFailureReported ==
    IsInstallOrUpdate(last)
        => /\ last.build.status = "ok" <=> (last.cmd.ran /\ last.cmd.exit = 0)
           /\ (last.cmd.ran /\ last.cmd.exit # 0)
                => /\ last.build.status = "err"
                   /\ Contains(last.build.what, last.cmd.output)
                   /\ last.res = last.build
                   /\ LastStep(last) = "exec"

\* C9 witness: an install whose build command failed with output
C9_Witness ==
    /\ last.op = "install"
    /\ last.cmd.ran
    /\ last.cmd.exit = WaitStatus(2)
    /\ last.cmd.output # <<>>
    /\ last.res.status = "err"

\* C10: sources of different variants are never equal; two Git sources are
\* equal iff url, branch and source path are; two Local sources iff their
\* paths are; equality is symmetric and reflexive.
C10_SourceEquality ==
    eqResult # NotRun
        => /\ srcA.kind # srcB.kind => ~eqResult.ab
           /\ (srcA.kind = "git" /\ srcB.kind = "git")
                => (eqResult.ab <=> /\ srcA.m_sUrl = srcB.m_sUrl
                                    /\ srcA.m_sBranch = srcB.m_sBranch
                                    /\ srcA.m_pSourcePath = srcB.m_pSourcePath)
           /\ (srcA.kind = "local" /\ srcB.kind = "local")
                => (eqResult.ab <=> srcA.m_pSourcePath = srcB.m_pSourcePath)
           /\ eqResult.ab = eqResult.ba
           /\ eqResult.aa

\* C10 witness: a Git and a Local source with the same source path, compared
C10_Witness ==
    /\ eqResult # NotRun
    /\ srcA.kind = "git"
    /\ srcB.kind = "local"
    /\ srcA.m_pSourcePath = srcB.m_pSourcePath
    /\ ~eqResult.ab

\* the last segment of a string: what follows its last "/", or all of it
IsLastSegment(seg, s) ==
    /\ \A i \in 1..Len(seg) : seg[i] # "/"
    /\ \/ s = seg
       \/ /\ Len(s) > Len(seg)
          /\ SubSeq(s, Len(s) - Len(seg) + 1, Len(s)) = seg
          /\ s[Len(s) - Len(seg)] = "/"
Segments(s) == {SubSeq(s, i, Len(s)) : i \in 1..(Len(s) + 1)}

\* C11: a url that starts with neither https:// nor git@ is stored as
\* https://github.com/<url>.git, any other url unchanged, and the source
\* path is <plugins-dir>/src/<last segment of the stored url>.
C11_GitUrlNormalized ==
    (reqInput # NotRun /\ reqInput.kind = "url")
        => /\ (StartsWith(reqInput.url, Https) \/ StartsWith(reqInput.url, GitAt))
                => reqResult.source.m_sUrl = reqInput.url
           /\ ~(StartsWith(reqInput.url, Https) \/ StartsWith(reqInput.url, GitAt))
                => reqResult.source.m_sUrl
                     = <<"h", "t", "t", "p", "s", ":", "/", "/", "g", "i", "t", "h", "u", "b",
                         ".", "c", "o", "m", "/">> \o reqInput.url \o <<".", "g", "i", "t">>
           /\ \E seg \in Segments(reqResult.source.m_sUrl) :
                 /\ IsLastSegment(seg, reqResult.source.m_sUrl)
                 /\ reqResult.source.m_pSourcePath
                      = PluginsPath \o <<"/", "s", "r", "c", "/">> \o seg

\* C11 witness: a shorthand url and a full url have been normalised
C11_Witness ==
    /\ reqInput # NotRun
    /\ reqInput.kind = "url"
    /\ reqInput.url = <<"a", "/">> \o Bar
    /\ reqResult.source.m_sUrl # reqInput.url
    /\ reqResult.source.m_pSourcePath = PluginsPath \o <<"/", "s", "r", "c", "/">> \o Bar \o DotGit

\* a field of a requirement entry is given when it holds a string, which is
\* what the entry format makes of git, local, branch and name
Given(entry, key) == entry[key].ty = "string"

\* C12: an entry that gives git constructs a Git source on that url, with
\* the given branch or else main, whether or not local is given too; an
\* entry that gives local and no git constructs a Local source on that
\* path; an entry that gives neither fails with the must-have-a-source
\* error and constructs nothing.
C12_SourceSelection ==
    (reqInput # NotRun /\ reqInput.kind = "entry")
        => /\ Given(reqInput.entry, "git")
                => /\ reqResult.status = "ok"
                   /\ reqResult.req.m_pSource.kind = "git"
                   /\ Contains(reqResult.req.m_pSource.m_sUrl, reqInput.entry.git.str)
                   /\ reqResult.req.m_pSource.m_sBranch
                        = IF Given(reqInput.entry, "branch") THEN reqInput.entry.branch.str
                          ELSE <<"m", "a", "i", "n">>
           /\ (~Given(reqInput.entry, "git") /\ Given(reqInput.entry, "local"))
                => /\ reqResult.status = "ok"
                   /\ reqResult.req.m_pSource.kind = "local"
                   /\ reqResult.req.m_pSource.m_pSourcePath = reqInput.entry.local.str
           /\ (~Given(reqInput.entry, "git") /\ ~Given(reqInput.entry, "local"))
                => /\ reqResult.status = "throw"
                   /\ reqResult.what = <<"Plugin must have a source">>
                   /\ DOMAIN reqResult = {"status", "what"}

\* C12 witness: an entry with both git and local has been constructed
C12_Witness ==
    /\ reqInput # NotRun
    /\ reqInput.kind = "entry"
    /\ Given(reqInput.entry, "git")
    /\ Given(reqInput.entry, "local")
    /\ reqResult.req.m_pSource.kind = "git"

\* the source identifier of an entry: its git url, or else its local path
SourceOf(entry) == IF Given(entry, "git") THEN entry.git.str ELSE entry.local.str

\* C13 (as claimed): for an entry with a source, the name is the given name,
\* or else the last segment of the source identifier; the binary path is
\* <plugins-dir>/bin/<name>.so; {git = "foo/bar"} gives name bar, url
\* https://github.com/foo/bar.git, branch main and binary path
\* <plugins-dir>/bin/bar.so.
C13_NameAndBinaryPath ==
    (reqInput # NotRun /\ reqInput.kind = "entry" /\ reqResult.status = "ok")
        => /\ Given(reqInput.entry, "name")
                => reqResult.req.m_sName = reqInput.entry.name.str
           /\ ~Given(reqInput.entry, "name")
                => IsLastSegment(reqResult.req.m_sName, SourceOf(reqInput.entry))
           /\ reqResult.req.m_pBinaryPath
                = PluginsPath \o <<"/", "b", "i", "n", "/">> \o reqResult.req.m_sName
                    \o <<".", "s", "o">>
           /\ reqInput.entry = ReqEntry(TStr(FooBar), Absent)
                => /\ reqResult.req.m_sName = Bar
                   /\ reqResult.req.m_pSource.m_sUrl = GithubPrefix \o FooBar \o DotGit
                   /\ reqResult.req.m_pSource.m_sBranch = <<"m", "a", "i", "n">>
                   /\ reqResult.req.m_pBinaryPath
                        = PluginsPath \o <<"/", "b", "i", "n", "/">> \o Bar \o <<".", "s", "o">>

\* a plugin table whose build table holds an array of strings as steps
AllStrings(v) == IsArray(v) /\ \A i \in 1..Len(v.elems) : IsString(v.elems[i])
ValidBuild(table) == IsTable(table.build) /\ AllStrings(table.build.tab.steps)
\* an optional field is omitted, or holds what the manifest format says it holds
OptionalString(v) == v = Absent \/ IsString(v)
WellTyped(table) ==
    /\ table.authors = Absent \/ AllStrings(table.authors)
    /\ OptionalString(table.author)
    /\ OptionalString(table.version)
    /\ OptionalString(table.description)
    /\ OptionalString(table.build.tab.output)
Strings(v) == [i \in 1..Len(v.elems) |-> v.elems[i].str]

\* C14: a plugin table with a valid build table and well-typed optional
\* fields constructs; in the manifest constructed from a table with a valid
\* build table, an omitted version is 0.0.0, an omitted description is
\* "No description provided", an omitted build.output is <key>.so, omitted
\* authors and author give no authors, and a field that is given is stored
\* as given.
C14_ManifestDefaults ==
    (manifestResult # NotRun /\ ValidBuild(manifestInput.table))
        => /\ WellTyped(manifestInput.table) => manifestResult.status = "ok"
           /\ manifestResult.status = "ok"
                => /\ manifestResult.manifest.m_sVersion
                        = IF manifestInput.table.version = Absent THEN <<"0.0.0">>
                          ELSE IF IsString(manifestInput.table.version)
                               THEN manifestInput.table.version.str
                               ELSE manifestResult.manifest.m_sVersion
                   /\ manifestResult.manifest.m_sDescription
                        = IF manifestInput.table.description = Absent
                          THEN <<"No description provided">>
                          ELSE IF IsString(manifestInput.table.description)
                               THEN manifestInput.table.description.str
                               ELSE manifestResult.manifest.m_sDescription
                   /\ manifestResult.manifest.m_pBinaryOutputPath
                        = IF manifestInput.table.build.tab.output = Absent
                          THEN manifestInput.name \o <<".", "s", "o">>
                          ELSE IF IsString(manifestInput.table.build.tab.output)
                               THEN manifestInput.table.build.tab.output.str
                               ELSE manifestResult.manifest.m_pBinaryOutputPath
                   /\ (manifestInput.table.authors = Absent /\ manifestInput.table.author = Absent)
                        => manifestResult.manifest.m_sAuthors = <<>>
                   /\ AllStrings(manifestInput.table.authors)
                        => manifestResult.manifest.m_sAuthors = Strings(manifestInput.table.authors)
                   /\ (manifestInput.table.authors = Absent /\ IsString(manifestInput.table.author))
                        => manifestResult.manifest.m_sAuthors = <<manifestInput.table.author.str>>
                   /\ manifestResult.manifest.m_sBuildSteps
                        = Strings(manifestInput.table.build.tab.steps)

\* C14 witness: key widget with steps ["make"] and nothing else gives widget.so
C14_Witness ==
    /\ manifestResult # NotRun
    /\ manifestInput.name = Widget
    /\ manifestInput.table = PluginTable(Absent, BuildTable(Absent)).tab
    /\ manifestResult.status = "ok"
    /\ manifestResult.manifest.m_pBinaryOutputPath = Widget \o DotSo
    /\ manifestResult.manifest.m_sVersion = DefaultVersion
    /\ manifestResult.manifest.m_sAuthors = <<>>

\* the strings a constructed manifest holds
ManifestStrings(pm) ==
    {pm.m_sVersion, pm.m_sDescription} \cup {pm.m_sAuthors[i] : i \in 1..Len(pm.m_sAuthors)}

\* C15 (as claimed): for every plugin table, construction of a
\* PluginManifest ends with a manifest whose fields are all defined, or
\* with a parse error.
C15_ManifestParsingTotal ==
    manifestResult # NotRun
        => /\ manifestResult.status \in {"ok", "throw"}
           /\ manifestResult.status = "ok"
                => GarbageString \notin ManifestStrings(manifestResult.manifest)

HeadersError ==
    Err(<<"Could not find hyprland headers. Refer to https://github.com/Duckonaut/hyprload#Setup">>)

\* C16 (as claimed): when the headers are not found, every buildPlugin that
\* an install or update runs fails with the setup-instructions error,
\* whatever the source tree holds, and runs no build command; so any other
\* error of buildPlugin comes with the headers found.
C16_HeadersCheckedFirst ==
    (IsInstallOrUpdate(last) /\ Did(last, "headers"))
        => /\ ~headers => (last.build = HeadersError /\ ~last.cmd.ran)
           /\ (last.build.status # "ok" /\ last.build # HeadersError) => headers

\* an install that went past the test for the source tree
Publishes(c) == Did(c, "remove") \/ Did(c, "copy")

\* C17: in an install on a present tree, removal and copy happen only after
\* a successful build, the manifest lookup and the artifact check, in this
\* order, and only they change the binaries directory; when the build, the
\* lookup or the check fails, install returns that step's error, the
\* binaries directory is as before the call and the source tree is as the
\* build left it.
C17_PublishAfterChecks ==
    [][ (last'.op = "install" /\ Did(last', "headers"))
            => /\ Publishes(last')
                    => /\ last'.build.status = "ok"
                       /\ SubSeq(last'.steps, 1, 5)
                            = <<"headers", "manifest", "exec", "manifest", "exists">>
                       /\ \A i \in 1..5 : last'.steps[i] \notin {"remove", "copy"}
                       /\ \E ub \in UBOutcomes :
                             /\ GetPluginManifest(tree', Src(last'.req).m_pSourcePath,
                                    Requirements[last'.req].m_sName, ub).status = "ok"
                             /\ Exists(tree', bin, PathJoin(Src(last'.req).m_pSourcePath,
                                    GetPluginManifest(tree', Src(last'.req).m_pSourcePath,
                                        Requirements[last'.req].m_sName, ub).manifest.m_pBinaryOutputPath))
               /\ ~Publishes(last')
                    => /\ last'.res.status # "ok"
                       /\ bin' = bin
                       /\ tree' \in {BuildPlugin(tree, Src(last'.req).m_pSourcePath,
                                                 Requirements[last'.req].m_sName, in).tree :
                                        in \in Inputs}
                       /\ last'.build.status # "ok"
                            => /\ last'.res = last'.build
                               /\ LastStep(last') \in {"manifest", "exec"}
                               /\ Len(last'.steps) <= 3
                       /\ last'.build.status = "ok"
                            => \/ /\ LastStep(last') = "manifest"
                                  /\ Len(last'.steps) = 4
                               \/ /\ LastStep(last') = "exists"
                                  /\ last'.res = Err(<<"Plugin binary does not exist">>)
      ]_vars

\* C17 witness: an install whose build succeeded and whose artifact was missing
C17_Witness ==
    /\ last.op = "install"
    /\ last.build.status = "ok"
    /\ LastStep(last) = "exists"
    /\ last.res = Err(<<"Plugin binary does not exist">>)

\* C18: on a Local source, installSource succeeds and changes nothing;
\* install on an absent directory fails with the source error, runs no build
\* and changes nothing; isUpToDate is false; update does what install does.
C18_LocalNeverFetched ==
    [][ last'.req \in LocalReqs
            => /\ last'.op = "installSource"
                    => /\ last'.res = Ok
                       /\ last'.steps = <<>>
                       /\ tree' = tree
                       /\ bin' = bin
               /\ (last'.op = "install" /\ ~tree[Src(last'.req).m_pSourcePath].exists)
                    => /\ last'.res = Err(<<"Source for ">> \o Requirements[last'.req].m_sName
                                            \o <<" does not exist">>)
                       /\ last'.steps = <<>>
                       /\ last'.build = NoBuild
                       /\ ~last'.cmd.ran
                       /\ tree' = tree
                       /\ bin' = bin
               /\ last'.op = "isUpToDate"
                    => /\ ~last'.ret
                       /\ ~last'.cmd.ran
               /\ last'.op = "update"
                    => /\ \E in \in Inputs :
                             /\ last'.res = Install(tree, bin, Src(last'.req),
                                                    Requirements[last'.req].m_sName, in).res
                             /\ last'.steps = Install(tree, bin, Src(last'.req),
                                                      Requirements[last'.req].m_sName, in).steps
                             /\ tree' = Install(tree, bin, Src(last'.req),
                                                Requirements[last'.req].m_sName, in).tree
                             /\ bin' = Install(tree, bin, Src(last'.req),
                                               Requirements[last'.req].m_sName, in).bin
                       /\ ~Did(last', "pull")
      ]_vars

\* C18 witness: an install of a Local source whose directory is absent
C18_Witness ==
    /\ last.op = "install"
    /\ last.req \in LocalReqs
    /\ ~tree[Src(last.req).m_pSourcePath].exists
    /\ last.res = Err(<<"Source for ">> \o Foo \o <<" does not exist">>)

\* C19 (as claimed): for two Git sources that are not equal, a clone or
\* install of one leaves the other's isSourceAvailable() and the tree the
\* other builds from as they were (so they share no source directory).
C19_GitSourcesIsolated ==
    [][ \A q \in GitReqs :
            (/\ last'.op \in {"install", "installSource"}
             /\ last'.req \in GitReqs
             /\ ~SourceEquals(Src(last'.req), Src(q)))
                => /\ IsSourceAvailable(tree', Src(q)) = IsSourceAvailable(tree, Src(q))
                   /\ tree'[Src(q).m_pSourcePath] = tree[Src(q).m_pSourcePath]
      ]_vars

====
